---- MODULE Spec2Model ----
(***************************************************************************)
(* TasTopo: the tile-grid assembly pipeline of src/src/listmap.py, the     *)
(* scale handling of src/src/map.py, the stitching and layering of         *)
(* src/src/image.py and the grid lines of src/src/layout.py.               *)
(*                                                                         *)
(* Arithmetic.  The program computes with Python floats; the model         *)
(* computes with exact rationals.  A distance in metres is held doubled    *)
(* (the bounding box halves the size), and a number of tile widths is held *)
(* as a numerator over the fixed denominator TileDenom(level).             *)
(***************************************************************************)
EXTENDS Integers, Sequences, FiniteSets, TLC

VARIABLES
    phase,      \* which part of the program this behaviour exercises
    centre,     \* MapData.centre / TileGrid.centre, metres
    size,       \* MapData.size / TileGrid.size, metres
    level,      \* the level of detail passed to getlayer
    mainpc,     \* position of the thread that called MapData.getlayer
    tilelist,   \* getlayer's tilelist: the positions from TileGrid.tiles()
    queue,      \* the Queue: indexes into tiles, first in first out
    unfinished, \* Queue.unfinished_tasks
    data,       \* Tile.data of tiles[i], NoData until fetch() has set it
    raised,     \* the tiles whose fetch() raised
    threads,    \* how many worker threads are at each position of _job
    fetching,   \* fetching[i]: how many threads are inside tiles[i].fetch()
    started,    \* worker threads started so far
    overtaken,  \* history: some tile was fetched before one listed ahead of it
    stitched,   \* whether image.stitch was called, and the tiles handed to it
    counts,     \* history: per tile, the times it was dequeued, fetched, written
    tilegrid,   \* what the TileGrid methods called so far have returned
    image,      \* the map.Image constructed last, or NoImage
    previmage,  \* the map.Image constructed before it, or NoImage
    construct,  \* the last call of map.Image(...) and how it ended
    args,       \* the arguments of the image or layout function called
    result      \* what that function has returned, or NoResult

fetchvars == <<mainpc, tilelist, queue, unfinished, data, raised, threads,
               fetching, started, overtaken, stitched, counts>>
inputvars == <<phase, centre, size, level>>
calcvars == <<tilegrid, image, previmage, construct, args, result>>
vars == <<inputvars, fetchvars, calcvars>>

NoData == <<"NoData">>
\* image.stitch has not been called.
NotCalled == [called |-> FALSE, tiles |-> <<>>]

\* No tile has been made yet.
NoCounts == [dequeued |-> <<>>, fetches |-> <<>>, written |-> <<>>]

\* No TileGrid method has been called.
NoGrid ==
    [called |-> {}, grid |-> <<>>, tiles |-> <<>>, origin |-> <<>>,
     pixelsize |-> <<>>]

\* No Image has been constructed.
NoImage == [none |-> TRUE]

\* map.Image(...) has not been called.
NoCall == [called |-> FALSE]

\* No function of image.py or layout.py is under study, or none has returned.
NoArgs == [none |-> TRUE]
NoResult == [returned |-> FALSE]

-----------------------------------------------------------------------------
(* Helpers *)

Min(a, b) == IF a <= b THEN a ELSE b

Abs(p) == IF p < 0 THEN -p ELSE p

\* Python's round(n / d), d > 0: to the nearest integer, a half to the even one.
PyRound(n, d) ==
    LET q == n \div d
        r == n % d
    IN  IF 2 * r < d THEN q
        ELSE IF 2 * r > d THEN q + 1
        ELSE IF q % 2 = 0 THEN q ELSE q + 1

-----------------------------------------------------------------------------
(* Layer: the properties the map service reports for a layer *)

LayerOrigin == <<-20037508, 20037508>>

LayerTilesize == 256

\* tileInfo.lods: the resolution in metres per pixel of levels 0, 1, ...
LayerLods == <<320, 160, 80, 40, 20, 10, 5>>

LayerResolution(lv) == LayerLods[lv + 1]

\* The denominator of a number of tile widths: twice resolution * tilesize.
TileDenom(lv) == 2 * LayerResolution(lv) * LayerTilesize

-----------------------------------------------------------------------------
(* TileGrid *)

\* bbox(): x1, y1, x2, y2 relative to the layer origin, in doubled metres.
bbox(c, s) ==
    <<2 * (c[1] - LayerOrigin[1]) - s[1],
      2 * (c[2] - LayerOrigin[2]) - s[2],
      2 * (c[1] - LayerOrigin[1]) + s[1],
      2 * (c[2] - LayerOrigin[2]) + s[2]>>

\* An overflow() that takes the fraction of the far edges as the overflow,
\* not what is left of the tile beyond them.
overflow_FarEdgeFraction(c, s, lv) ==
    LET b == bbox(c, s)
        D == TileDenom(lv)
    IN  <<(<<b[1] % D, b[3] % D>>), (<<b[4] % D, b[2] % D>>)>>

\* overflow(): ((left, right), (top, bottom)), numerators over TileDenom(lv).
overflow(c, s, lv) ==
    LET b == bbox(c, s)
        D == TileDenom(lv)
        left == b[1] % D
        bottom == b[2] % D
        top == D - (b[4] % D)
        right == D - (b[3] % D)
    IN  <<(<<left, right>>), (<<top, bottom>>)>>

\* grid(): the start tile and the shape (columns, rows).
grid(c, s, lv) ==
    LET b == bbox(c, s)
        D == TileDenom(lv)
        o == overflow(c, s, lv)
        start == <<b[1] \div D, b[2] \div D>>
        shape == <<PyRound(2 * s[1] + o[1][1] + o[1][2], D),
                   PyRound(2 * s[2] + o[2][1] + o[2][2], D)>>
    IN  <<start, shape>>

\* tiles(): rows from shape[1] down to 1, columns from 0 up within each row.
tiles(c, s, lv) ==
    LET g == grid(c, s, lv)
        start == g[1]
        shape == g[2]
    IN  [k \in 1..(shape[1] * shape[2]) |->
            LET col == (k - 1) % shape[1]
                row == shape[2] - ((k - 1) \div shape[1])
            IN  <<start[1] + col, start[2] + row>>]

\* pixelsize(): the grid dimensions in pixels.
pixelsize(s, lv) ==
    <<PyRound(s[1], LayerResolution(lv)), PyRound(s[2], LayerResolution(lv))>>

\* origin(): the position of the first tile in pixels (left, top).
origin(c, s, lv) ==
    LET o == overflow(c, s, lv)
        D == TileDenom(lv)
    IN  <<-1 * PyRound(o[1][1] * LayerTilesize, D),
          -1 * PyRound(o[2][1] * LayerTilesize, D)>>

-----------------------------------------------------------------------------
(* Tile *)

\* The row and column Tile.fetch puts in the request: abs() of the position.
WireTile(position, lv) ==
    [level |-> lv, row |-> Abs(position[2]), col |-> Abs(position[1])]

\* The content the service returns for a request is fixed by the tile asked for.
TileBytes(position, lv) == <<"bytes", WireTile(position, lv)>>

-----------------------------------------------------------------------------
(* MapData.getlayer and MapData._job *)
(*                                                                         *)
(* The worker threads are started alike (same target, same queue) and have *)
(* no name in the program, so the state counts the threads at each         *)
(* position of _job: "check" before queue.empty(), "get" before            *)
(* queue.get(), fetching[i] inside tiles[i].fetch(), "exited" after the    *)
(* loop, "dead" after an exception.  A thread at "get" with an empty queue *)
(* is blocked.  fetch() setting the data and the task_done() after it are  *)
(* one step: no other thread reads the data before join() has returned.    *)

MAX_THREADS == 8

\* The requests a behaviour of getlayer starts from: (centre, size, level).
\* They give lists of 1, 3, 6 and 9 tiles: under and over MAX_THREADS.
\* MapData takes any size: a width of minus one tile gives a grid of no
\* column and a list of no tile.
GetlayerInputs ==
    {<<(<<500000, 5200000>>), s, 5>> :
        s \in {<<100, 100>>, <<3000, 100>>, <<3000, 3000>>, <<6000, 5000>>,
               <<-2560, 100>>}}

NumTiles == Len(tilelist)

\* A getlayer that starts MAX_THREADS workers whatever the number of tiles.
PoolSizeMaxThreads == MAX_THREADS

\* Line 209: min(self.MAX_THREADS, len(tiles)).
PoolSize == Min(MAX_THREADS, NumTiles)

\* The tile fetches in flight: the threads inside a fetch().
RECURSIVE SeqSum(_)
SeqSum(f) == IF f = <<>> THEN 0 ELSE Head(f) + SeqSum(Tail(f))
InFlight == SeqSum(fetching)

\* A get() that reads the first item and leaves it in the queue.
queue_get_Peek(q) == q

\* The queue after queue.get() has taken its first item.
queue_get(q) == Tail(q)

Move(from, to) ==
    [threads EXCEPT ![from] = @ - 1, ![to] = @ + 1]

\* What tile.fetch() leaves in tile.data on a 2xx response.
Fetched(i) == TileBytes(tilelist[i], level)

\* A fetcher that files each result in the next free slot, in completion order.
SetDataNextFree(i, v) ==
    LET free == {j \in 1..NumTiles : data[j] = NoData}
        first == CHOOSE j \in free : \A k \in free : j <= k
    IN  [data EXCEPT ![first] = v]

\* self.data = r.content: the result is kept on the tile that was fetched.
SetData(i, v) == [data EXCEPT ![i] = v]

\* A join that waits for the queue to drain rather than for the tasks to end.
JoinReturnsOnEmptyQueue == queue = <<>>

\* queue.join() returns once every task put has been marked done.
JoinReturns == unfinished = 0

\* Lines 200-207: build the grid, the tile list and the tiles; put each tile.
Getlayer ==
    /\ phase = "getlayer"
    /\ mainpc = "idle"
    /\ LET tl == tiles(centre, size, level)
       IN  /\ tilelist' = tl
           /\ queue' = [i \in 1..Len(tl) |-> i]
           /\ unfinished' = Len(tl)
           /\ data' = [i \in 1..Len(tl) |-> NoData]
           /\ fetching' = [i \in 1..Len(tl) |-> 0]
           /\ counts' = [dequeued |-> [i \in 1..Len(tl) |-> 0],
                         fetches |-> [i \in 1..Len(tl) |-> 0],
                         written |-> [i \in 1..Len(tl) |-> 0]]
    /\ mainpc' = "spawn"
    /\ UNCHANGED <<inputvars, calcvars, raised, threads, started,
                   overtaken, stitched>>

\* Lines 209-211: one pass of the loop that starts a worker thread.
StartWorker ==
    /\ mainpc = "spawn"
    /\ started < PoolSize
    /\ started' = started + 1
    /\ threads' = [threads EXCEPT !["check"] = @ + 1]
    /\ UNCHANGED <<inputvars, calcvars, mainpc, tilelist, queue,
                   unfinished, data, raised, fetching, overtaken, stitched,
                   counts>>

\* Line 213: the loop is over and queue.join() returns.
Join ==
    /\ mainpc = "spawn"
    /\ started = PoolSize
    /\ JoinReturns
    /\ mainpc' = "stitch"
    /\ UNCHANGED <<inputvars, calcvars, tilelist, queue, unfinished,
                   data, raised, threads, fetching, started, overtaken, stitched,
                   counts>>

\* Line 214: the tiles, in list order, are handed to image.stitch.
Stitch ==
    /\ mainpc = "stitch"
    /\ stitched' = [called |-> TRUE, tiles |-> [i \in 1..NumTiles |-> data[i]]]
    /\ mainpc' = "done"
    /\ UNCHANGED <<inputvars, calcvars, tilelist, queue, unfinished,
                   data, raised, threads, fetching, started, overtaken,
                   counts>>

\* Line 218: a worker tests queue.empty() and leaves the loop or goes on.
CheckEmpty ==
    /\ threads["check"] > 0
    /\ threads' = IF queue = <<>> THEN Move("check", "exited")
                                  ELSE Move("check", "get")
    /\ UNCHANGED <<inputvars, calcvars, mainpc, tilelist, queue,
                   unfinished, data, raised, fetching, started, overtaken,
                   stitched, counts>>

\* Line 219: queue.get() takes the first tile; it blocks while there is none.
Get ==
    /\ threads["get"] > 0
    /\ queue # <<>>
    /\ queue' = queue_get(queue)
    /\ fetching' = [fetching EXCEPT ![Head(queue)] = @ + 1]
    /\ threads' = [threads EXCEPT !["get"] = @ - 1]
    /\ counts' = [counts EXCEPT !.dequeued[Head(queue)] = @ + 1]
    /\ UNCHANGED <<inputvars, calcvars, mainpc, tilelist, unfinished,
                   data, raised, started, overtaken, stitched>>

\* Lines 220-221: fetch() gets a 2xx response and sets the data; task_done().
FetchOk(i) ==
    /\ fetching[i] > 0
    /\ data' = SetData(i, Fetched(i))
    /\ unfinished' = unfinished - 1
    /\ fetching' = [fetching EXCEPT ![i] = @ - 1]
    /\ threads' = [threads EXCEPT !["check"] = @ + 1]
    /\ overtaken' = (overtaken \/ \E j \in 1..(i - 1) : data[j] = NoData)
    /\ counts' = [counts EXCEPT !.fetches[i] = @ + 1, !.written[i] = @ + 1]
    /\ UNCHANGED <<inputvars, calcvars, mainpc, tilelist, queue,
                   raised, started, stitched>>

\* Line 220: the request fails; raise_for_status() or the transport raises,
\* nothing in _job catches it and the thread ends without task_done().
FetchRaises(i) ==
    /\ fetching[i] > 0
    /\ raised' = raised \cup {i}
    /\ fetching' = [fetching EXCEPT ![i] = @ - 1]
    /\ threads' = [threads EXCEPT !["dead"] = @ + 1]
    /\ counts' = [counts EXCEPT !.fetches[i] = @ + 1]
    /\ UNCHANGED <<inputvars, calcvars, mainpc, tilelist, queue,
                   unfinished, data, started, overtaken, stitched>>

Init ==
    /\ phase = "getlayer"
    /\ \E in \in GetlayerInputs :
        /\ centre = in[1]
        /\ size = in[2]
        /\ level = in[3]
    /\ mainpc = "idle"
    /\ tilelist = <<>>
    /\ queue = <<>>
    /\ unfinished = 0
    /\ data = <<>>
    /\ raised = {}
    /\ threads = [p \in {"check", "get", "exited", "dead"} |-> 0]
    /\ fetching = <<>>
    /\ started = 0
    /\ overtaken = FALSE
    /\ stitched = NotCalled
    /\ counts = NoCounts
    /\ tilegrid = NoGrid
    /\ image = NoImage
    /\ previmage = NoImage
    /\ construct = NoCall
    /\ args = NoArgs
    /\ result = NoResult

Next ==
    \/ Getlayer
    \/ StartWorker
    \/ Join
    \/ Stitch
    \/ CheckEmpty
    \/ Get
    \/ \E i \in 1..NumTiles : FetchOk(i)
    \/ \E i \in 1..NumTiles : FetchRaises(i)

Spec == Init /\ [][Next]_vars

-----------------------------------------------------------------------------
(* The concurrent tile fetcher: properties of Spec *)

\* No step of the program is possible: every thread has ended or is blocked.
Quiescent == ~ENABLED Next

\* C1: whatever the order in which the workers complete, the sequence handed
\* to the stitcher is in request order: it is as long as the tile list and
\* entry i holds the bytes fetched for the tile position at index i; and at
\* no time does a tile hold bytes fetched for another position.
C1_StitchedInRequestOrder ==
    /\ \A i \in 1..NumTiles : data[i] \in {NoData, TileBytes(tilelist[i], level)}
    /\ stitched.called =>
          /\ Len(stitched.tiles) = Len(tilelist)
          /\ \A i \in 1..Len(tilelist) :
                stitched.tiles[i] = TileBytes(tilelist[i], level)

\* C1 witness: the stitcher was called with four or more tiles after some
\* tile had completed ahead of one listed before it.
C1_Witness ==
    /\ stitched.called
    /\ Len(stitched.tiles) >= 4
    /\ overtaken

\* C2: when image.stitch is invoked, and from then on, every tile has reached
\* a terminal state: it is in no queue and in no fetch, and it has its data
\* or its fetch has raised.
C2_StitchAfterAllTerminal ==
    mainpc \in {"stitch", "done"} =>
        \A i \in 1..NumTiles :
            /\ \A k \in 1..Len(queue) : queue[k] # i
            /\ fetching[i] = 0
            /\ data[i] # NoData \/ i \in raised

\* C2 witness: getlayer is about to call image.stitch on several tiles, the
\* last of which was fetched before an earlier one.
C2_Witness ==
    /\ mainpc = "stitch"
    /\ NumTiles >= 4
    /\ overtaken

\* C3 (the claim as stated): once a fetch has failed the call still comes to
\* an end, and its end is the PartialFetchFailure that lists exactly the
\* failed tiles, every other tile holding its bytes.
C3_FailureEndsInPartialFetchFailure ==
    raised # {} =>
        \/ ENABLED Next
        \/ /\ mainpc = "PartialFetchFailure"
           /\ \A i \in 1..NumTiles : i \notin raised => data[i] = Fetched(i)

\* C4 (the claim as stated): a failed fetch does not cancel the others; when
\* nothing more can happen, every tile whose own fetch did not fail has been
\* fetched and holds its bytes.
C4_SiblingsStillFetched ==
    Quiescent =>
        \A i \in 1..NumTiles : i \notin raised => data[i] = Fetched(i)

\* C16: at all times the worker threads started, and so the threads that
\* exist and the fetches in flight, are at most min(8, N), N being the number
\* of tiles; every thread started is at one position of _job; and with no
\* tile no worker is started and the call does not stop before it has called
\* image.stitch: join() returns at once.
C16_WorkersBounded ==
    mainpc # "idle" =>
        /\ started <= Min(8, NumTiles)
        /\ threads["check"] + threads["get"] + InFlight
              + threads["exited"] + threads["dead"] = started
        /\ InFlight <= Min(8, NumTiles)
        /\ NumTiles = 0 =>
              /\ started = 0
              /\ mainpc = "done" \/ ENABLED Next

\* C16 witness: of nine tiles, eight are being fetched at the same time by
\* the eight workers, and the ninth is still in the queue.
C16_Witness ==
    /\ NumTiles = 9
    /\ started = 8
    /\ InFlight = 8
    /\ Len(queue) = 1

\* C17: in every interleaving each tile is either in the queue, once, or
\* was dequeued, once; a tile dequeued is inside one fetch() or has had one,
\* never a second; at most one thread is inside the fetch() of a tile and its
\* data was written at most once; and when getlayer goes on to image.stitch
\* every tile was dequeued once, fetched once and written once.
C17_ExactlyOnce ==
    mainpc # "idle" =>
        \A i \in 1..NumTiles :
            /\ Cardinality({k \in 1..Len(queue) : queue[k] = i})
                  + counts.dequeued[i] = 1
            /\ fetching[i] + counts.fetches[i] = counts.dequeued[i]
            /\ fetching[i] <= 1
            /\ counts.written[i] <= counts.fetches[i]
            /\ mainpc \in {"stitch", "done"} =>
                  /\ counts.dequeued[i] = 1
                  /\ counts.fetches[i] = 1
                  /\ counts.written[i] = 1

\* C17 witness: getlayer has handed nine tiles to image.stitch after eight
\* workers took them from the queue, some tile ending before one listed
\* ahead of it: each was dequeued, fetched and written once.
C17_Witness ==
    /\ mainpc = "done"
    /\ NumTiles = 9
    /\ started = 8
    /\ overtaken
    /\ \A i \in 1..NumTiles : counts.dequeued[i] = 1 /\ counts.written[i] = 1

\* C18 (the claim as stated): with every fetch succeeding, when nothing
\* more can happen every worker thread started has left _job: none is
\* blocked in queue.get() on the empty queue.
C18_WorkersTerminate ==
    (raised = {} /\ Quiescent) =>
        /\ threads["exited"] = started
        /\ threads["get"] = 0

-----------------------------------------------------------------------------
(* TileGrid on its own: a grid is built and its methods are called *)

\* The centres lie 3200 m (beyond half of the widest box) to
\* 3200 + 640 * MaxQuarterTiles metres east and south of the layer origin,
\* a quarter tile of level 5 apart.
MaxQuarterTiles == 8

\* Distances of the centre from the layer origin.  The multiples of 640 put
\* edges of the box on tile boundaries; 5167 puts an edge 3 m short of one.
GridOffsets == {3200 + 640 * k : k \in 0..MaxQuarterTiles} \cup {5167}

\* Centres whose box lies across the meridian or the parallel of the origin.
StraddleCentres ==
    {<<LayerOrigin[1] + 1000, LayerOrigin[2] - 5137>>,
     <<LayerOrigin[1] + 5137, LayerOrigin[2] - 1000>>}

GridCentres ==
    {<<LayerOrigin[1] + dx, LayerOrigin[2] - dy>> :
        dx \in GridOffsets, dy \in GridOffsets}
    \cup StraddleCentres
    \cup {<<500000, 5200000>>}

GridSizes ==
    {<<w, h>> : w \in {100, 2560, 5120, 6000}, h \in {100, 2560, 4000}}

GridLevels == {5, 6}

InitGrid ==
    /\ phase = "grid"
    /\ centre \in GridCentres
    /\ size \in GridSizes
    /\ level \in GridLevels
    /\ mainpc = "idle"
    /\ tilelist = <<>>
    /\ queue = <<>>
    /\ unfinished = 0
    /\ data = <<>>
    /\ raised = {}
    /\ threads = [p \in {"check", "get", "exited", "dead"} |-> 0]
    /\ fetching = <<>>
    /\ started = 0
    /\ overtaken = FALSE
    /\ stitched = NotCalled
    /\ counts = NoCounts
    /\ tilegrid = NoGrid
    /\ image = NoImage
    /\ previmage = NoImage
    /\ construct = NoCall
    /\ args = NoArgs
    /\ result = NoResult

CallGrid ==
    /\ phase = "grid"
    /\ "grid" \notin tilegrid.called
    /\ tilegrid' = [tilegrid EXCEPT !.called = @ \cup {"grid"},
                                     !.grid = grid(centre, size, level)]
    /\ UNCHANGED <<inputvars, fetchvars, image, previmage, construct,
                   args, result>>

CallTiles ==
    /\ phase = "grid"
    /\ "tiles" \notin tilegrid.called
    /\ tilegrid' = [tilegrid EXCEPT !.called = @ \cup {"tiles"},
                                     !.tiles = tiles(centre, size, level)]
    /\ UNCHANGED <<inputvars, fetchvars, image, previmage, construct,
                   args, result>>

CallOrigin ==
    /\ phase = "grid"
    /\ "origin" \notin tilegrid.called
    /\ tilegrid' = [tilegrid EXCEPT !.called = @ \cup {"origin"},
                                     !.origin = origin(centre, size, level)]
    /\ UNCHANGED <<inputvars, fetchvars, image, previmage, construct,
                   args, result>>

CallPixelsize ==
    /\ phase = "grid"
    /\ "pixelsize" \notin tilegrid.called
    /\ tilegrid' = [tilegrid EXCEPT !.called = @ \cup {"pixelsize"},
                                     !.pixelsize = pixelsize(size, level)]
    /\ UNCHANGED <<inputvars, fetchvars, image, previmage, construct,
                   args, result>>

NextGrid ==
    \/ CallGrid
    \/ CallTiles
    \/ CallOrigin
    \/ CallPixelsize

SpecGrid == InitGrid /\ [][NextGrid]_vars

-----------------------------------------------------------------------------
(* The tile grid calculator: properties of SpecGrid *)

\* The requested box and the edges of the block of tiles, in doubled metres.
Box == bbox(centre, size)
BlockLeft == tilegrid.grid[1][1] * TileDenom(level)
BlockRight == (tilegrid.grid[1][1] + tilegrid.grid[2][1]) * TileDenom(level)
BlockBottom == tilegrid.grid[1][2] * TileDenom(level)
BlockTop == (tilegrid.grid[1][2] + tilegrid.grid[2][2]) * TileDenom(level)

\* C5 (the claim as stated, the offsets read as distances: origin() returns
\* them negated, as the place to paste the first tile): the grid has at
\* least one column and one row, and the offsets are less than one tile.
C5_OffsetsSubTile ==
    {"grid", "origin"} \subseteq tilegrid.called =>
        /\ tilegrid.grid[2][1] >= 1
        /\ tilegrid.grid[2][2] >= 1
        /\ 0 <= -tilegrid.origin[1] /\ -tilegrid.origin[1] < LayerTilesize
        /\ 0 <= -tilegrid.origin[2] /\ -tilegrid.origin[2] < LayerTilesize

\* C6: the block of tiles of grid() covers the requested box on both axes,
\* its pixel extent is at least the requested pixel size on each axis, and
\* for tile size 256, resolution 10 m/px and 600 x 400 px it has at least
\* 3 columns and 2 rows.
C6_GridCoversBox ==
    "grid" \in tilegrid.called =>
        /\ BlockLeft <= Box[1] /\ Box[3] <= BlockRight
        /\ BlockBottom <= Box[2] /\ Box[4] <= BlockTop
        /\ tilegrid.grid[2][1] * LayerTilesize >= pixelsize(size, level)[1]
        /\ tilegrid.grid[2][2] * LayerTilesize >= pixelsize(size, level)[2]
        /\ (LayerTilesize = 256 /\ LayerResolution(level) = 10
              /\ pixelsize(size, level) = <<600, 400>>) =>
                (tilegrid.grid[2][1] >= 3 /\ tilegrid.grid[2][2] >= 2)

\* C6 witness: grid() has answered for the 600 x 400 px request at
\* (500000, 5200000), whose box is aligned to no tile boundary.
C6_Witness ==
    /\ "grid" \in tilegrid.called
    /\ centre = <<500000, 5200000>> /\ size = <<6000, 4000>> /\ level = 5
    /\ \A e \in 1..4 : Box[e] % TileDenom(level) # 0
    /\ tilegrid.grid[2] = <<3, 2>>

\* C7 (the claim as stated): tiles() has columns * rows entries in raster
\* order on the wire: the row requested for an entry is the first entry's
\* row plus the entry's row in the grid, the column the first entry's column
\* plus its column in the grid.
C7_RasterOrderOnTheWire ==
    {"grid", "tiles"} \subseteq tilegrid.called =>
        LET cols == tilegrid.grid[2][1]
            rows == tilegrid.grid[2][2]
            first == WireTile(tilegrid.tiles[1], level)
        IN  /\ Len(tilegrid.tiles) = cols * rows
            /\ \A k \in 1..Len(tilegrid.tiles) :
                 LET w == WireTile(tilegrid.tiles[k], level)
                 IN  /\ w.row = first.row + ((k - 1) \div cols)
                     /\ w.col = first.col + ((k - 1) % cols)

\* C8 (the claim as stated): the block of tiles is minimal: its first and
\* last column and its first and last row each overlap the requested box in
\* more than an edge.
C8_MinimalCover ==
    "grid" \in tilegrid.called =>
        /\ BlockLeft + TileDenom(level) > Box[1]
        /\ BlockRight - TileDenom(level) < Box[3]
        /\ BlockBottom + TileDenom(level) > Box[2]
        /\ BlockTop - TileDenom(level) < Box[4]

-----------------------------------------------------------------------------
(* map.Image.__init__ *)

\* LOD_BOUNDARY = 0.3, as the fraction LodBoundaryNum / LodBoundaryDen.
LodBoundaryNum == 3
LodBoundaryDen == 10

\* The scale whose scale factor is 1.
ReferenceScale == 100000

\* n / d brought into [1, 2) by doubling or halving: 2 ** (log2(n / d) % 1).
RECURSIVE BetweenHalvings(_, _)
BetweenHalvings(n, d) ==
    IF n < d THEN BetweenHalvings(2 * n, d)
    ELSE IF n >= 2 * d THEN BetweenHalvings(n, 2 * d)
    ELSE <<n, d>>

\* Line 57: the position of the scale between adjacent scale halvings, as
\* the fraction <<numerator, denominator>>.
scale_factor(scale) == BetweenHalvings(scale, ReferenceScale)

\* scale_factor - 1 is exactly LOD_BOUNDARY in the rationals.  What the float
\* comparison then answers rests on the rounding of log and **.
OnLodBoundary(scale) ==
    LET f == scale_factor(scale)
    IN  LodBoundaryDen * (f[1] - f[2]) = LodBoundaryNum * f[2]

\* Line 62: scale_factor - 1 > self.LOD_BOUNDARY.  roundsup is the answer of
\* the float comparison where the rationals are equal.
PastLodBoundary(scale, roundsup) ==
    LET f == scale_factor(scale)
    IN  \/ LodBoundaryDen * (f[1] - f[2]) > LodBoundaryNum * f[2]
        \/ OnLodBoundary(scale) /\ roundsup

\* An __init__ that lets the correction stand in for a smaller adjustment.
zoom_MaxOfCorrection(zoom, scale, roundsup) ==
    LET c == IF PastLodBoundary(scale, roundsup) THEN 1 ELSE 0
    IN  IF zoom > c THEN zoom ELSE c

\* Line 62: self.zoom.
zoom_level(zoom, scale, roundsup) ==
    zoom + (IF PastLodBoundary(scale, roundsup) THEN 1 ELSE 0)

\* The Image that __init__(location, sheet, scale, zoom) leaves; its dpi is
\* MIN_DPI times scale_factor.
ImageInit(scale, zoom, roundsup) ==
    [scale |-> scale,
     zoomarg |-> zoom,
     roundsup |-> roundsup,
     scale_factor |-> scale_factor(scale),
     zoom |-> zoom_level(zoom, scale, roundsup)]

\* Line 57: math.log raises ValueError("math domain error") for an argument
\* that is not positive; the argument is self.scale / 100000.
log_raises(scale) == scale <= 0

\* An __init__ whose logarithm answers at 0 (minus infinity, as numpy's
\* does): the scale factor is then not a number, no comparison with it
\* holds, and the Image is left with the zoom it was given.
Image__init__LogAnswersAtZero(scale, zoom, roundsup) ==
    IF scale < 0
    THEN [raised |-> "ValueError", image |-> NoImage]
    ELSE IF scale = 0
    THEN [raised |-> "none",
          image |-> [scale |-> 0, zoomarg |-> zoom, roundsup |-> roundsup,
                     scale_factor |-> <<0, 0>>, zoom |-> zoom]]
    ELSE [raised |-> "none", image |-> ImageInit(scale, zoom, roundsup)]

\* Lines 50-62: how the call Image(location, sheet, scale, zoom) ends: with
\* the exception that line 57 raised, and then with no Image, or with the
\* Image of ImageInit.
Image__init__(scale, zoom, roundsup) ==
    IF log_raises(scale)
    THEN [raised |-> "ValueError", image |-> NoImage]
    ELSE [raised |-> "none", image |-> ImageInit(scale, zoom, roundsup)]

\* The zoom adjustments given run from -MaxZoomAdjust to MaxZoomAdjust.
MaxZoomAdjust == 2

ZoomAdjusts == (-MaxZoomAdjust)..MaxZoomAdjust

\* Scales from 1:1,000 to 1:1,000,000: halvings and doublings of 100000,
\* scales on the 0.3 boundary (130000 and its halvings and doublings), and
\* scales on either side of both.
Scales ==
    {1000, 5000, 8125, 10000, 16250, 20000, 25000, 32500, 50000, 65000,
     100000, 129999, 130000, 130001, 140000, 199999, 200000, 250000,
     260000, 500000, 520000, 1000000}

\* Scales that are not positive.
NonPositiveScales == {0, -1, -25000}

InitScale ==
    /\ phase = "scale"
    /\ centre = <<500000, 5200000>>
    /\ size = <<0, 0>>
    /\ level = 0
    /\ mainpc = "idle"
    /\ tilelist = <<>>
    /\ queue = <<>>
    /\ unfinished = 0
    /\ data = <<>>
    /\ raised = {}
    /\ threads = [p \in {"check", "get", "exited", "dead"} |-> 0]
    /\ fetching = <<>>
    /\ started = 0
    /\ overtaken = FALSE
    /\ stitched = NotCalled
    /\ counts = NoCounts
    /\ tilegrid = NoGrid
    /\ image = NoImage
    /\ previmage = NoImage
    /\ construct = NoCall
    /\ args = NoArgs
    /\ result = NoResult

\* Image(location, sheet, scale, zoom) is constructed.
NewImage(scale, zoom, roundsup) ==
    /\ phase = "scale"
    /\ roundsup => (scale > 0 /\ OnLodBoundary(scale))
    /\ LET end == Image__init__(scale, zoom, roundsup)
       IN  /\ image' = end.image
           /\ construct' = [called |-> TRUE, scale |-> scale, zoom |-> zoom,
                            raised |-> end.raised]
    /\ previmage' = image
    /\ UNCHANGED <<inputvars, fetchvars, tilegrid, args, result>>

NextScale ==
    \E scale \in Scales \cup NonPositiveScales, zoom \in ZoomAdjusts,
       roundsup \in BOOLEAN :
        NewImage(scale, zoom, roundsup)

SpecScale == InitScale /\ [][NextScale]_vars

-----------------------------------------------------------------------------
(* The scale resolver: properties of SpecScale *)

\* C9 (the claim as stated; a higher level is a finer one): of two Images
\* with the same zoom adjustment, the one with the larger scale has no finer
\* a level than the other.
C9_LevelMonotonicInScale ==
    (image # NoImage /\ previmage # NoImage) =>
        \A a, b \in {image, previmage} :
            (a.zoomarg = b.zoomarg /\ a.scale < b.scale) => b.zoom <= a.zoom

\* C10: the zoom adjustment shifts the level by whole steps: adjusting by
\* k more gives a level k higher, for the same scale; and the correction,
\* the level less the adjustment, is 0 or 1 and is the same for every other
\* adjustment.
C10_ZoomShiftsByWholeSteps ==
    image # NoImage =>
        /\ image.zoom - image.zoomarg \in {0, 1}
        /\ \A z \in ZoomAdjusts :
              ImageInit(image.scale, z, image.roundsup).zoom - z
                  = image.zoom - image.zoomarg
        /\ previmage # NoImage /\ previmage.scale = image.scale
              /\ previmage.roundsup = image.roundsup =>
                 image.zoom - previmage.zoom
                     = image.zoomarg - previmage.zoomarg

\* C11: constructing an Image with a scale that is zero or negative fails:
\* the call ends at once with the exception of line 57 (Python's ValueError
\* is the code's error for an invalid scale), and it leaves no Image, hence
\* no zoom level, no scale factor for the dpi and nothing to take an extent
\* in metres from.
C11_NonPositiveScaleFails ==
    (construct.called /\ construct.scale <= 0) =>
        /\ construct.raised = "ValueError"
        /\ image = NoImage

\* C11 witness: Image(...) was called with the scale -25000; the call ended
\* with the exception and there is no Image.
C11_Witness ==
    /\ construct.called /\ construct.scale = -25000
    /\ construct.raised = "ValueError"
    /\ image = NoImage /\ previmage = NoImage

\* C10 witness: two Images of one scale past the boundary, with different
\* adjustments, neither of them 0: each level is its adjustment plus 1.
C10_Witness ==
    /\ image # NoImage /\ previmage # NoImage
    /\ image.scale = 140000 /\ previmage.scale = 140000
    /\ image.zoomarg = 2 /\ previmage.zoomarg = -1
    /\ image.zoom = 3 /\ previmage.zoom = 0

-----------------------------------------------------------------------------
(* image.stitch *)

\* Tile images are TilePixels pixels wide and high (the service's are 256),
\* and a grid has up to MaxCols columns and MaxRows rows.
TilePixels == 2
MaxCols == 3
MaxRows == 2

\* The pixel of Image.new('RGB', size) that nothing was pasted on: black.
Black == <<0, 0, 0>>

\* The decoded image of the i-th tile of the list: pixel (u, v) of it has a
\* colour of its own, <<i, u, v>>.  PNG coding loses nothing, so frombytes of
\* the bytes fetched is the image the service drew.
TileImage(i) == [width |-> TilePixels, height |-> TilePixels, id |-> i]

\* Line 19: Image.new('RGB', size), pixels (0, 0) to (width-1, height-1).
ImageNew(sz) ==
    [p \in (0..(sz[1] - 1)) \X (0..(sz[2] - 1)) |-> Black]

\* Line 25: result.paste(tileimage, (x, y)); what falls outside is clipped.
paste(canvas, tileimage, x, y) ==
    [p \in DOMAIN canvas |->
        IF /\ x <= p[1] /\ p[1] < x + tileimage.width
           /\ y <= p[2] /\ p[2] < y + tileimage.height
        THEN <<tileimage.id, p[1] - x, p[2] - y>>
        ELSE canvas[p]]

\* Lines 23-29: the loop over the tiles.  pasted is the list of the places
\* the tiles were pasted at so far.
RECURSIVE stitch_loop(_, _, _, _, _, _)
stitch_loop(canvas, pasted, x, y, tileimages, sz) ==
    IF tileimages = <<>>
    THEN [returned |-> TRUE, raster |-> canvas, pasted |-> pasted]
    ELSE LET tileimage == Head(tileimages)
             nx == x + tileimage.width
             wrap == nx >= sz[1]
         IN  stitch_loop(paste(canvas, tileimage, x, y),
                         Append(pasted, <<x, y>>),
                         IF wrap THEN 0 ELSE nx,
                         IF wrap THEN y + tileimage.height ELSE y,
                         Tail(tileimages), sz)

\* Lines 17-31: stitch(tiles, size).
stitch(tileimages, sz) ==
    stitch_loop(ImageNew(sz), <<>>, 0, 0, tileimages, sz)

\* What getlayer has at line 214 for a grid of cols x rows tiles whose box
\* starts dx, dy pixels inside the first tile and is w x h pixels: the
\* tiles, grid.pixelsize() and grid.origin() (the offsets negated).
StitchCall(cols, rows, dx, dy, w, h) ==
    [tiles |-> [i \in 1..(cols * rows) |-> TileImage(i)],
     size |-> <<w, h>>,
     origin |-> <<-dx, -dy>>,
     shape |-> <<cols, rows>>]

\* The grids of TileGrid: the block of tiles covers the box, and it ends
\* at most one tile beyond it (grid() adds the two overflows, each at most
\* one tile, to the size).
StitchCalls ==
    {StitchCall(c[1], c[2], c[3], c[4], c[5], c[6]) :
        c \in {d \in (1..MaxCols) \X (1..MaxRows)
                      \X (0..TilePixels) \X (0..TilePixels)
                      \X (1..(MaxCols * TilePixels))
                      \X (1..(MaxRows * TilePixels)) :
                 /\ d[1] * TilePixels - d[3] - d[5] \in 0..TilePixels
                 /\ d[2] * TilePixels - d[4] - d[6] \in 0..TilePixels}}

IdleFetcher ==
    /\ centre = <<500000, 5200000>>
    /\ size = <<0, 0>>
    /\ level = 0
    /\ mainpc = "idle"
    /\ tilelist = <<>>
    /\ queue = <<>>
    /\ unfinished = 0
    /\ data = <<>>
    /\ raised = {}
    /\ threads = [p \in {"check", "get", "exited", "dead"} |-> 0]
    /\ fetching = <<>>
    /\ started = 0
    /\ overtaken = FALSE
    /\ stitched = NotCalled
    /\ counts = NoCounts
    /\ tilegrid = NoGrid
    /\ image = NoImage
    /\ previmage = NoImage
    /\ construct = NoCall

InitStitch ==
    /\ phase = "stitch"
    /\ IdleFetcher
    /\ args \in StitchCalls
    /\ result = NoResult

\* image.stitch is called with the tiles and the size.
CallStitch ==
    /\ phase = "stitch"
    /\ ~result.returned
    /\ result' = stitch(args.tiles, args.size)
    /\ UNCHANGED <<inputvars, fetchvars, tilegrid, image, previmage,
                   construct, args>>

NextStitch == CallStitch

SpecStitch == InitStitch /\ [][NextStitch]_vars

-----------------------------------------------------------------------------
(* The stitcher: properties of SpecStitch *)

\* Pixel (X, Y) of the full canvas of the grid: tile (col, row), listed at
\* row * columns + col, lies at (col * TilePixels, row * TilePixels).
FullCanvas(X, Y) ==
    <<(Y \div TilePixels) * args.shape[1] + (X \div TilePixels) + 1,
      X % TilePixels, Y % TilePixels>>

\* C12 (the claim as stated): the raster returned has exactly the size asked
\* for, and its pixel (x, y) is pixel (x + dx, y + dy) of the full canvas of
\* the tiles, (dx, dy) being the pixel origin of the grid.
C12_CroppedAtPixelOrigin ==
    result.returned =>
        /\ DOMAIN result.raster =
              (0..(args.size[1] - 1)) \X (0..(args.size[2] - 1))
        /\ \A p \in DOMAIN result.raster :
              result.raster[p] =
                  FullCanvas(p[1] - args.origin[1], p[2] - args.origin[2])

\* C13 (the claim as stated): tile i of the list, counted from 0, is pasted
\* at ((i mod columns) * tileSize, (i div columns) * tileSize).
C13_PastedInRasterScan ==
    result.returned =>
        /\ Len(result.pasted) = Len(args.tiles)
        /\ \A k \in 1..Len(result.pasted) :
              result.pasted[k] =
                  <<((k - 1) % args.shape[1]) * TilePixels,
                    ((k - 1) \div args.shape[1]) * TilePixels>>

-----------------------------------------------------------------------------
(* image.layer *)

\* A layer list has up to MaxOverlays overlays after the base image.
MaxOverlays == 2

\* The opacities, as fractions <<numerator, denominator>>: 0.0, 0.15 (the
\* opacity map.py gives the hill shading), 0.5 and 1.0.
Opacities == {<<0, 1>>, <<15, 100>>, <<1, 2>>, <<1, 1>>}

\* Colours of a pixel, a value of 0 to 255 in each of the three bands.
Colours == {<<255, 255, 255>>, <<10, 200, 7>>}

\* The rasters: images of two pixels by one, all of the same dimensions.
Rasters == [{<<0, 0>>, <<1, 0>>} -> Colours]

\* Pillow's Image.blend(im1, im2, alpha) for alpha from 0 to 1: each band of
\* each pixel is im1 + alpha * (im2 - im1), cut to a whole number.
blend(im1, im2, alpha) ==
    [p \in DOMAIN im1 |->
        [b \in 1..3 |->
            (im1[p][b] * alpha[2] + alpha[1] * (im2[p][b] - im1[p][b]))
                \div alpha[2]]]

\* A layer() that blends every overlay onto the first image.
layer_step_OntoFirst(running, first, overlay, opacity) ==
    blend(first, overlay, opacity)

\* Line 39: one pass of the loop: the overlay is blended onto the result
\* of the passes before it.  first is frombytes(args[0]).
layer_step(running, first, overlay, opacity) ==
    blend(running, overlay, opacity)

\* The argument lists of layer(): the base image, then pairs of an image
\* and an opacity.
LayerCalls ==
    {[base |-> b, overlays |-> o] :
        b \in Rasters,
        o \in UNION {[1..n -> [image : Rasters, opacity : Opacities]] :
                        n \in 0..MaxOverlays}}

InitLayer ==
    /\ phase = "layer"
    /\ IdleFetcher
    /\ args \in LayerCalls
    /\ result = NoResult

\* Line 36: result = frombytes(args[0]).
LayerOpen ==
    /\ phase = "layer"
    /\ result = NoResult
    /\ result' = [returned |-> FALSE, raster |-> args.base,
                  before |-> args.base, step |-> 0]
    /\ UNCHANGED <<inputvars, fetchvars, tilegrid, image, previmage,
                   construct, args>>

\* Lines 38-39: the next overlay is blended onto the result.
LayerBlend ==
    /\ phase = "layer"
    /\ result # NoResult
    /\ ~result.returned
    /\ result.step < Len(args.overlays)
    /\ LET overlay == args.overlays[result.step + 1]
       IN  result' = [returned |-> FALSE,
                      raster |-> layer_step(result.raster, args.base,
                                            overlay.image, overlay.opacity),
                      before |-> result.raster,
                      step |-> result.step + 1]
    /\ UNCHANGED <<inputvars, fetchvars, tilegrid, image, previmage,
                   construct, args>>

\* Line 41: the result is returned.
LayerReturn ==
    /\ phase = "layer"
    /\ result # NoResult
    /\ ~result.returned
    /\ result.step = Len(args.overlays)
    /\ result' = [result EXCEPT !.returned = TRUE]
    /\ UNCHANGED <<inputvars, fetchvars, tilegrid, image, previmage,
                   construct, args>>

NextLayer ==
    \/ LayerOpen
    \/ LayerBlend
    \/ LayerReturn

SpecLayer == InitLayer /\ [][NextLayer]_vars

-----------------------------------------------------------------------------
(* The blender: properties of SpecLayer *)

\* C14: blending is exact at the boundaries, at every pass of layer(): a
\* pass whose opacity is 0.0 leaves the result of the passes before it
\* unchanged, and a pass whose opacity is 1.0 leaves the overlay itself.
C14_BlendExactAtBoundaries ==
    (result # NoResult /\ result.step >= 1) =>
        LET overlay == args.overlays[result.step]
        IN  /\ overlay.opacity = <<0, 1>> => result.raster = result.before
            /\ overlay.opacity = <<1, 1>> => result.raster = overlay.image

\* C14 witness: layer() has returned after two passes: the first, of
\* opacity 0.5, changed the base image, and the second, of opacity 0.0 and
\* with an overlay unlike it, left the result of the first as it was.
C14_Witness ==
    /\ result # NoResult /\ result.returned /\ result.step = 2
    /\ args.overlays[1].opacity = <<1, 2>>
    /\ args.overlays[2].opacity = <<0, 1>>
    /\ result.raster # args.base
    /\ result.raster # args.overlays[2].image
    /\ result.raster = result.before

-----------------------------------------------------------------------------
(* layout.Layout._drawgrid *)

MIN_GRID_SPACING == 30

\* Line 132: 1e6, the millimetres in a kilometre.
MmPerKm == 1000000

\* ceil(n / d) and int(n / d) of Python, for n >= 0 and d > 0.
Ceil(n, d) == (n + d - 1) \div d
Floor(n, d) == n \div d

\* Line 132: km_size, the millimetres of paper a kilometre takes, as the
\* fraction <<numerator, denominator>>.
km_size(scale) == <<MmPerKm, scale>>

\* A _drawgrid that rounds the number of kilometres to the nearest.
grid_size_Rounded(scale) ==
    LET km == km_size(scale)
    IN  IF MIN_GRID_SPACING * km[2] >= km[1]
        THEN PyRound(MIN_GRID_SPACING * km[2], km[1])
        ELSE 1

\* Line 133: math.ceil(max(self.MIN_GRID_SPACING, km_size) / km_size).
\* Where km_size is the larger, the quotient is km_size / km_size, 1.
grid_size(scale) ==
    LET km == km_size(scale)
    IN  IF MIN_GRID_SPACING * km[2] >= km[1]
        THEN Ceil(MIN_GRID_SPACING * km[2], km[1])
        ELSE Ceil(1, 1)

\* Line 134: spacing = grid_size * km_size, as a fraction.
spacing(scale) == <<grid_size(scale) * km_size(scale)[1], km_size(scale)[2]>>

\* Lines 129-141: the spacing, the grid lines drawn across the viewport (the
\* x of each vertical line and the y of each horizontal one, as numerators
\* over the denominator of the spacing) and the 'grid' entry of details.
drawgrid(scale, viewport) ==
    LET sp == spacing(scale)
        width == viewport[1]
        height == viewport[2]
    IN  [returned |-> TRUE,
         km_size |-> km_size(scale),
         grid_size |-> grid_size(scale),
         spacing |-> sp,
         vertical |-> {x * sp[1] : x \in 1..Floor(width * sp[2], sp[1])},
         horizontal |-> {height * sp[2] - y * sp[1] :
                            y \in 1..Floor(height * sp[2], sp[1])},
         details |-> <<grid_size(scale), "km">>]

\* The scales of Scales and scales about which the kilometre is 30 mm or
\* the number of kilometres changes.
DrawScales ==
    Scales \cup {30000, 33333, 33334, 40000, 66666, 66667, 300000, 700000}

\* Width and height in mm of the map view of Sheet.viewport(): landscape
\* sheets of A5, A4 and A3 less the margins and the footer.
Viewports == {<<198, 121>>, <<285, 183>>, <<408, 270>>}

InitDrawgrid ==
    /\ phase = "drawgrid"
    /\ IdleFetcher
    /\ args \in [scale : DrawScales, viewport : Viewports]
    /\ result = NoResult

\* Layout._drawgrid(svg) runs for the Image scale and the Sheet viewport.
Drawgrid ==
    /\ phase = "drawgrid"
    /\ ~result.returned
    /\ result' = drawgrid(args.scale, args.viewport)
    /\ UNCHANGED <<inputvars, fetchvars, tilegrid, image, previmage,
                   construct, args>>

NextDrawgrid == Drawgrid

SpecDrawgrid == InitDrawgrid /\ [][NextDrawgrid]_vars

-----------------------------------------------------------------------------
(* The grid of the layout: properties of SpecDrawgrid *)

\* C15: with kmPerUnit = 1,000,000 / scale, the multiplier is
\* ceil(30 / kmPerUnit) and the spacing multiplier * kmPerUnit; the
\* multiplier is the smallest whole number of kilometres, one or more, whose
\* spacing on paper is at least 30; and for scale 25000 the multiplier is 1
\* and the spacing 40.
C15_SmallestKilometreMultiple ==
    result.returned =>
        LET n == 30 * args.scale
            d == 1000000
            m == result.grid_size
        IN  /\ m = -((-n) \div d)
            /\ result.spacing = <<m * d, args.scale>>
            /\ m >= 1
            /\ m * d >= n
            /\ \A k \in 1..(m - 1) : k * d < n
            /\ args.scale = 25000 =>
                  (m = 1 /\ result.spacing[1] = 40 * result.spacing[2])

\* C15 witness: the grid was drawn for scale 25000, where a kilometre is
\* 40 mm, more than the minimum: one kilometre between lines, 40 mm apart,
\* and seven vertical lines across a viewport of 285 mm.
C15_Witness ==
    /\ result.returned
    /\ args.scale = 25000 /\ args.viewport = <<285, 183>>
    /\ result.grid_size = 1
    /\ result.spacing[1] = 40 * result.spacing[2]
    /\ Cardinality(result.vertical) = 7

====
